---- MODULE Spec2Model ----
(***************************************************************************)
(* Model of the export documentation generators:                           *)
(*   export/obsolete/generate_hierarchy.py   (nested-box diagram)          *)
(*   export/standalone/generate_html.py      (standalone JSON/CSV pages)   *)
(*   export/obsolete/generate_html_wp.py     (WordPress JSON/CSV pages)    *)
(*                                                                         *)
(* A text (a CSV cell, a label) is a sequence of tokens: <<>> is the empty *)
(* string, <<"Note", "[]">> is the string "Note[]".  Every string          *)
(* operation of the code (endswith, slicing, join, lower, escape) is an    *)
(* operation on these sequences.  A table row is a record of cells.        *)
(***************************************************************************)
EXTENDS Naturals, Sequences, FiniteSets

VARIABLES
    prog,       \* which generator runs: "hierarchy", "standalone" or "wp"
    pc,         \* position of main()
    files,      \* the three input tables on disk: [present, rows] per file name
    warnings,   \* file names for which load_csv printed a warning
    data,       \* result of load_all_data(): [objects, fields, enum_values]
    tree,       \* result of build_tree(): [children, primitives, descriptions]
    html,       \* page held in memory by main() (last generate_* result)
    fault,      \* the uncaught exception that ended the run, or "none"
    disk        \* output files written so far: [hierarchy, json, csv]

vars == <<prog, pc, files, warnings, data, tree, html, fault, disk>>

----------------------------------------------------------------------------
(* Bounds of the explored inputs *)

MaxObjects == 2
MaxFields == 2
MaxEnumValues == 2

----------------------------------------------------------------------------
(* Texts *)

\* Python None: the value csv.DictReader gives a cell missing from a short row
None == <<"<None>">>

Empty == <<>>
ARR == "[]"
Site == <<"Site">>
Location == <<"Location">>

\* bool(text): None and the empty string are falsy
Truthy(s) == s # Empty /\ s # None

\* ftype.endswith("[]")
IsArray(ftype) == Len(ftype) > 0 /\ ftype[Len(ftype)] = ARR

\* ftype[:-2] if is_array else ftype
BaseType(ftype) == IF IsArray(ftype) THEN SubSeq(ftype, 1, Len(ftype) - 1) ELSE ftype

\* one token of ", ".join(...)
SEP == ", "

RECURSIVE Join(_)
\* ", ".join(texts)
Join(texts) ==
    IF texts = <<>> THEN Empty
    ELSE IF Len(texts) = 1 THEN texts[1]
    ELSE texts[1] \o <<SEP>> \o Join(Tail(texts))

LowerTok(t) ==
    CASE t = "Site" -> "site"
      [] t = "Location" -> "location"
      [] t = "Note" -> "note"
      [] t = "Project" -> "project"
      [] t = "Status" -> "status"
      [] t = "SoilMatches" -> "soilmatches"
      [] t = "EcologicalSite" -> "ecologicalsite"
      [] t = "SoilData" -> "soildata"
      [] t = "DepthInterval" -> "depthinterval"
      [] t = "Widget" -> "widget"
      [] OTHER -> t

\* str.lower()
Lower(s) == [i \in DOMAIN s |-> LowerTok(s[i])]

escape_html_tok(t) ==
    CASE t = "&" -> "&amp;"
      [] t = "<" -> "&lt;"
      [] t = ">" -> "&gt;"
      [] t = "\"" -> "&quot;"
      [] OTHER -> t

\* escape_html(text) of generate_hierarchy.py
escape_html(s) == [i \in DOMAIN s |-> escape_html_tok(s[i])]

escape_tok(t) ==
    CASE t = "&" -> "&amp;"
      [] t = "<" -> "&lt;"
      [] t = ">" -> "&gt;"
      [] t = "\"" -> "&quot;"
      [] t = "'" -> "&#x27;"
      [] OTHER -> t

\* html.escape(s), as imported by generate_html.py and generate_html_wp.py
escape(s) == [i \in DOMAIN s |-> escape_tok(s[i])]

\* escape(None) and escape_html(None) raise AttributeError (None has no replace)
EscapeFaults(s) == s = None

----------------------------------------------------------------------------
(* Dictionaries: functions whose domain is the set of keys *)

EmptyDict == [k \in {} |-> <<>>]

Put(d, k, v) == [x \in DOMAIN d \cup {k} |-> IF x = k THEN v ELSE d[x]]

\* if k not in d: d[k] = []  followed by  d[k].append(e)
AppendTo(d, k, e) == Put(d, k, IF k \in DOMAIN d THEN Append(d[k], e) ELSE <<e>>)

\* del d[k]
Del(d, k) == [x \in DOMAIN d \ {k} |-> d[x]]

\* d.get(k, default)
Get(d, k, default) == IF k \in DOMAIN d THEN d[k] ELSE default

----------------------------------------------------------------------------
(* The loader: csv.DictReader and load_csv *)

\* the header rows of the three tables
ObjectsHeader == <<"name", "description">>
FieldsHeader == <<"object", "json_name", "csv_column", "type", "description">>
EnumValuesHeader == <<"enum", "value", "label">>

\* csv.DictReader: one line of cells becomes a map from the header's column names;
\* a column the line is too short for gets None (restval)
DictRow(header, line) ==
    [h \in {header[i] : i \in DOMAIN header} |->
        LET i == CHOOSE i \in DOMAIN header : header[i] = h
        IN  IF i <= Len(line) THEN line[i] ELSE None]

\* list(csv.DictReader(f))
DictReader(header, lines) == [i \in DOMAIN lines |-> DictRow(header, lines[i])]

\* load_csv of generate_hierarchy.py: open() raises FileNotFoundError when the
\* file is absent
hier_load_csv_faults(file) == ~file.present

\* load_csv of generate_hierarchy.py, for a file that is present
hier_load_csv(file, header) == DictReader(header, file.lines)

\* load_csv of generate_html.py: an absent file gives [] and a warning
load_csv(file, header) ==
    IF ~file.present THEN [rows |-> <<>>, warned |-> TRUE]
    ELSE [rows |-> DictReader(header, file.lines), warned |-> FALSE]

\* load_csv of generate_html_wp.py
wp_load_csv(file, header) ==
    IF ~file.present THEN [rows |-> <<>>, warned |-> TRUE]
    ELSE [rows |-> DictReader(header, file.lines), warned |-> FALSE]

----------------------------------------------------------------------------
(* generate_hierarchy.py: build_tree *)

\* {obj["name"] for obj in objects}
object_names(objects) == {objects[i].name : i \in DOMAIN objects}

\* {obj["name"]: obj["description"] for obj in objects}: the last row of a name wins
object_desc(objects) ==
    [n \in object_names(objects) |->
        LET last == CHOOSE i \in DOMAIN objects :
                       /\ objects[i].name = n
                       /\ \A j \in DOMAIN objects : objects[j].name = n => j <= i
        IN  objects[last].description]

RECURSIVE hier_values_by_enum(_, _, _)
\* the loop of lines 25-30: enum name -> list of the raw values, in row order
hier_values_by_enum(enum_values, i, acc) ==
    IF i > Len(enum_values) THEN acc
    ELSE hier_values_by_enum(enum_values, i + 1,
                             AppendTo(acc, enum_values[i].enum, enum_values[i].value))

\* lines 56-63: the display type of a field that is no Object reference
hier_type_display(base_type, values_by_enum) ==
    IF base_type \in DOMAIN values_by_enum THEN Join(values_by_enum[base_type])
    ELSE IF base_type = <<"boolean">> THEN <<"true", SEP, "false">>
    ELSE IF base_type = <<"datetime">> THEN <<"ISO 8601 DateTime">>
    ELSE base_type

\* hier_field_step with the enum test of lines 56-57 made before the Object test of
\* line 49 (the order generate_json_html uses)
hier_field_step_enum_first(field, names, values_by_enum, acc) ==
    LET ftype == field.type
        fname == field.json_name
        parent == field.object
        fdesc == field.description
        is_array == IsArray(ftype)
        base_type == BaseType(ftype)
    IN  IF ~Truthy(fname) THEN acc
        ELSE IF base_type \in names /\ base_type \notin DOMAIN values_by_enum
        THEN [acc EXCEPT !.children =
                  AppendTo(acc.children, parent, <<fname, base_type, is_array>>)]
        ELSE [acc EXCEPT !.primitives =
                  AppendTo(acc.primitives, parent,
                           <<fname, hier_type_display(base_type, values_by_enum), fdesc>>)]

\* lines 38-67: one iteration of the loop over the Field rows
hier_field_step(field, names, values_by_enum, acc) ==
    LET ftype == field.type
        fname == field.json_name
        parent == field.object
        fdesc == field.description
        is_array == IsArray(ftype)
        base_type == BaseType(ftype)
    IN  IF ~Truthy(fname) THEN acc
        ELSE IF base_type \in names
        THEN [acc EXCEPT !.children =
                  AppendTo(acc.children, parent, <<fname, base_type, is_array>>)]
        ELSE [acc EXCEPT !.primitives =
                  AppendTo(acc.primitives, parent,
                           <<fname, hier_type_display(base_type, values_by_enum), fdesc>>)]

RECURSIVE hier_field_loop(_, _, _, _, _)
hier_field_loop(fields, i, names, values_by_enum, acc) ==
    IF i > Len(fields) THEN acc
    ELSE hier_field_loop(fields, i + 1, names, values_by_enum,
                         hier_field_step(fields[i], names, values_by_enum, acc))

\* lines 69-72: merge Location fields into Site
hier_merge(primitives) ==
    IF Location \in DOMAIN primitives /\ Site \in DOMAIN primitives
    THEN Del([primitives EXCEPT ![Site] = primitives[Site] \o primitives[Location]],
             Location)
    ELSE primitives

\* lines 46-47: ftype.endswith("[]") raises AttributeError for a row with a
\* json_name whose line was too short to hold a type
build_tree_fault(fields) ==
    IF \E i \in DOMAIN fields : Truthy(fields[i].json_name) /\ fields[i].type = None
    THEN "AttributeError"
    ELSE "none"

\* build_tree(), given the rows of the three tables
build_tree(objects, fields, enum_values) ==
    LET values_by_enum == hier_values_by_enum(enum_values, 1, EmptyDict)
        acc == hier_field_loop(fields, 1, object_names(objects), values_by_enum,
                               [children |-> EmptyDict, primitives |-> EmptyDict])
    IN  [children |-> acc.children,
         primitives |-> hier_merge(acc.primitives),
         descriptions |-> object_desc(objects)]

----------------------------------------------------------------------------
(* generate_hierarchy.py: generate_html *)

\* len(colors), the palette of generate_html
PaletteSize == 8

\* lines 117-124: escape_html(fdesc) raises AttributeError for a row whose line
\* was too short to hold a description
render_rows_fault(primitives, obj_name) ==
    /\ obj_name \in DOMAIN primitives
    /\ \E i \in DOMAIN primitives[obj_name] : EscapeFaults(primitives[obj_name][i][3])

RECURSIVE render_node_fault(_, _, _, _)
RECURSIVE render_children_fault(_, _, _, _, _)
\* the first exception render_node(obj_name) meets: it renders the node's own rows,
\* then its children in order; a child that is already on the chain of calls
\* renders the same containers again without end (RecursionError)
render_node_fault(children, primitives, obj_name, chain) ==
    IF obj_name \in chain THEN "RecursionError"
    ELSE IF render_rows_fault(primitives, obj_name) THEN "AttributeError"
    ELSE IF obj_name \in DOMAIN children
    THEN render_children_fault(children, primitives, children[obj_name], 1,
                               chain \cup {obj_name})
    ELSE "none"

render_children_fault(children, primitives, refs, i, chain) ==
    IF i > Len(refs) THEN "none"
    ELSE IF render_node_fault(children, primitives, refs[i][2], chain) # "none"
    THEN render_node_fault(children, primitives, refs[i][2], chain)
    ELSE render_children_fault(children, primitives, refs, i + 1, chain)

\* lines 117-125: the rows of the primitive-field table of one container
render_rows(prims) ==
    [i \in DOMAIN prims |->
        <<escape_html(prims[i][1]), escape_html(prims[i][2]), escape_html(prims[i][3])>>]

RECURSIVE render_node(_, _, _, _, _, _, _)
RECURSIVE render_children(_, _, _, _, _, _)
\* render_node with the children rendered at the depth of their parent
render_node_flat(children, primitives, descriptions, obj_name, field_name, is_array, depth) ==
    LET named == IF Truthy(field_name) THEN field_name ELSE obj_name
        label == IF is_array THEN named \o <<ARR>> ELSE named
        has_fields == obj_name \in DOMAIN primitives
        node == [label |-> label,
                 obj_name |-> obj_name,
                 depth |-> depth,
                 color |-> depth % PaletteSize,
                 desc |-> IF Truthy(Get(descriptions, obj_name, Empty))
                          THEN escape_html(Get(descriptions, obj_name, Empty))
                          ELSE Empty,
                 has_fields |-> has_fields,
                 rows |-> IF has_fields THEN render_rows(primitives[obj_name]) ELSE <<>>,
                 fault |-> FALSE]
    IN  <<node>> \o
        (IF obj_name \in DOMAIN children
         THEN render_children(children, primitives, descriptions,
                              children[obj_name], 1, depth)
         ELSE <<>>)

\* render_node(obj_name, field_name, is_array, depth): the containers it emits, the
\* node's own first and then those of its children, each with its nesting depth
render_node(children, primitives, descriptions, obj_name, field_name, is_array, depth) ==
    LET named == IF Truthy(field_name) THEN field_name ELSE obj_name
        label == IF is_array THEN named \o <<ARR>> ELSE named
        has_fields == obj_name \in DOMAIN primitives
        node == [label |-> label,
                 obj_name |-> obj_name,
                 depth |-> depth,
                 color |-> depth % PaletteSize,
                 desc |-> IF Truthy(Get(descriptions, obj_name, Empty))
                          THEN escape_html(Get(descriptions, obj_name, Empty))
                          ELSE Empty,
                 has_fields |-> has_fields,
                 rows |-> IF has_fields THEN render_rows(primitives[obj_name]) ELSE <<>>,
                 fault |-> has_fields /\ \E i \in DOMAIN primitives[obj_name] :
                                            EscapeFaults(primitives[obj_name][i][3])]
    IN  <<node>> \o
        (IF obj_name \in DOMAIN children
         THEN render_children(children, primitives, descriptions,
                              children[obj_name], 1, depth + 1)
         ELSE <<>>)

\* lines 131-132: the loop over children[obj_name]
render_children(children, primitives, descriptions, refs, i, depth) ==
    IF i > Len(refs) THEN <<>>
    ELSE render_node(children, primitives, descriptions,
                     refs[i][2], refs[i][1], refs[i][3], depth)
         \o render_children(children, primitives, descriptions, refs, i + 1, depth)

\* hier_generate_fault for a render_node that reads primitives[obj_name] without the
\* membership test of line 117
hier_generate_fault_unguarded(t) ==
    IF Site \notin DOMAIN t.primitives THEN "KeyError"
    ELSE render_node_fault(t.children, t.primitives, Site, {})

\* the exception generate_html(children, primitives, descriptions) raises, if any
hier_generate_fault(t) == render_node_fault(t.children, t.primitives, Site, {})

\* generate_html(children, primitives, descriptions): the page, as its containers
hier_generate_html(t) ==
    [kind |-> "hierarchy",
     nodes |-> render_node(t.children, t.primitives, t.descriptions,
                           Site, <<"sites">>, TRUE, 0)]

----------------------------------------------------------------------------
(* generate_html.py: generate_json_html *)

\* bool(f.get("json_name"))
is_json_field(f) == Truthy(f.json_name)

RECURSIVE fields_by_object(_, _, _)
\* lines 233-235: group the Field rows by owning object, in row order
fields_by_object(fields, i, acc) ==
    IF i > Len(fields) THEN acc
    ELSE fields_by_object(fields, i + 1, AppendTo(acc, fields[i].object, fields[i]))

RECURSIVE values_by_enum(_, _, _)
\* lines 238-240: group the EnumValue rows by enum, in row order
values_by_enum(enum_values, i, acc) ==
    IF i > Len(enum_values) THEN acc
    ELSE values_by_enum(enum_values, i + 1,
                        AppendTo(acc, enum_values[i].enum, enum_values[i]))

RECURSIVE parent_map(_, _, _, _)
\* lines 244-255: child type -> (parent object, field name, is_array); a later row
\* of the same child type replaces an earlier one
parent_map(fields, i, names, acc) ==
    IF i > Len(fields) THEN acc
    ELSE LET field == fields[i]
             base_type == BaseType(field.type)
         IN  parent_map(fields, i + 1, names,
                 IF Truthy(field.json_name) /\ base_type \in names
                 THEN Put(acc, base_type,
                          <<field.object, field.json_name, IsArray(field.type)>>)
                 ELSE acc)

RECURSIVE PathDiverges(_, _, _)
\* compute_json_path(obj_name) never returns (RecursionError): the parent chain of
\* obj_name loops without passing through Site or Location
PathDiverges(pmap, obj_name, chain) ==
    IF obj_name \in {Site, Location} THEN FALSE
    ELSE IF obj_name \notin DOMAIN pmap THEN FALSE
    ELSE IF obj_name \in chain THEN TRUE
    ELSE PathDiverges(pmap, pmap[obj_name][1], chain \cup {obj_name})

RECURSIVE compute_json_path_unsuffixed(_, _)
\* compute_json_path without the suffix of line 265
compute_json_path_unsuffixed(pmap, obj_name) ==
    IF obj_name \in {Site, Location} THEN <<"sites", ARR>>
    ELSE IF obj_name \notin DOMAIN pmap THEN Empty
    ELSE compute_json_path_unsuffixed(pmap, pmap[obj_name][1])
         \o <<".">> \o pmap[obj_name][2]

RECURSIVE compute_json_path(_, _)
\* lines 257-266
compute_json_path(pmap, obj_name) ==
    IF obj_name \in {Site, Location} THEN <<"sites", ARR>>
    ELSE IF obj_name \notin DOMAIN pmap THEN Empty
    ELSE compute_json_path(pmap, pmap[obj_name][1]) \o <<".">> \o pmap[obj_name][2]
         \o (IF pmap[obj_name][3] THEN <<ARR>> ELSE Empty)

\* merge_location with Site's rows appended to Location's instead
merge_location_location_first(by_object) ==
    IF Location \in DOMAIN by_object /\ Site \in DOMAIN by_object
    THEN Del([by_object EXCEPT ![Site] = by_object[Location] \o by_object[Site]],
             Location)
    ELSE by_object

\* lines 269-271: merge Location fields into Site
merge_location(by_object) ==
    IF Location \in DOMAIN by_object /\ Site \in DOMAIN by_object
    THEN Del([by_object EXCEPT ![Site] = by_object[Site] \o by_object[Location]],
             Location)
    ELSE by_object

\* [f for f in fields_by_object.get(name, []) if is_json_field(f)]
json_fields_of(by_object, name) ==
    SelectSeq(Get(by_object, name, <<>>), is_json_field)

\* json_objects without the skip of Location of lines 282-283
json_objects_keep_location(objects, by_object) ==
    LET keep(obj) == json_fields_of(by_object, obj.name) # <<>>
    IN  SelectSeq(objects, keep)

\* lines 278-286: the Object rows that get a section
json_objects(objects, by_object) ==
    LET keep(obj) == obj.name # Location /\ json_fields_of(by_object, obj.name) # <<>>
    IN  SelectSeq(objects, keep)

\* json_type_cell with every type that is no enum, boolean or datetime shown as a
\* link to an Object of that name, known or not
json_type_cell_links_unknown(base_type, by_enum, names) ==
    IF base_type \in DOMAIN by_enum
    THEN [kind |-> "plain",
          text |-> Join([i \in DOMAIN by_enum[base_type] |->
                            escape(by_enum[base_type][i].value)])]
    ELSE IF base_type = <<"boolean">>
    THEN [kind |-> "span", text |-> <<"true", SEP, "false">>]
    ELSE IF base_type = <<"datetime">>
    THEN [kind |-> "span", text |-> <<"ISO 8601 DateTime">>]
    ELSE [kind |-> "link", text |-> escape(base_type),
          href |-> <<"#obj-">> \o Lower(base_type)]

\* lines 364-377: the type cell of one field row
json_type_cell(base_type, by_enum, names) ==
    IF base_type \in DOMAIN by_enum
    THEN [kind |-> "plain",
          text |-> Join([i \in DOMAIN by_enum[base_type] |->
                            escape(by_enum[base_type][i].value)])]
    ELSE IF base_type = <<"boolean">>
    THEN [kind |-> "span", text |-> <<"true", SEP, "false">>]
    ELSE IF base_type = <<"datetime">>
    THEN [kind |-> "span", text |-> <<"ISO 8601 DateTime">>]
    ELSE IF base_type \in names
    THEN [kind |-> "link", text |-> escape(base_type),
          href |-> <<"#obj-">> \o Lower(base_type)]
    ELSE [kind |-> "span", text |-> escape(base_type)]

\* json_row with the field name shown bare, whatever the type
json_row_unmarked(f, by_enum, names) ==
    [name |-> escape(f.json_name),
     type |-> json_type_cell(BaseType(f.type), by_enum, names),
     desc |-> escape(f.description),
     fault |-> EscapeFaults(f.description)]

\* lines 349-381: one table row
json_row(f, by_enum, names) ==
    [name |-> IF IsArray(f.type) THEN escape(f.json_name) \o <<ARR>>
              ELSE escape(f.json_name),
     type |-> json_type_cell(BaseType(f.type), by_enum, names),
     desc |-> escape(f.description),
     fault |-> EscapeFaults(f.description)]

\* lines 331-383: the section of one object
json_section(obj, by_object, by_enum, pmap, names) ==
    LET obj_fields == json_fields_of(by_object, obj.name)
    IN  [id |-> <<"obj-">> \o Lower(obj.name),
         name |-> escape(obj.name),
         desc |-> IF Truthy(obj.description) THEN escape(obj.description) ELSE Empty,
         path |-> escape(compute_json_path(pmap, obj.name)),
         rows |-> [i \in DOMAIN obj_fields |-> json_row(obj_fields[i], by_enum, names)]]

\* lines 244-255: ftype.endswith("[]") raises AttributeError for a row with a json_name
\* whose line was too short to hold a type
parent_map_fault(fields) ==
    \E i \in DOMAIN fields : Truthy(fields[i].json_name) /\ fields[i].type = None

RECURSIVE sections_fault(_, _, _, _)
\* the first exception the loop over json_objects meets: for each object in turn
\* its path is computed, then its rows are escaped
sections_fault(objs, i, by_object, pmap) ==
    IF i > Len(objs) THEN "none"
    ELSE IF PathDiverges(pmap, objs[i].name, {}) THEN "RecursionError"
    ELSE IF \E j \in DOMAIN json_fields_of(by_object, objs[i].name) :
               EscapeFaults(json_fields_of(by_object, objs[i].name)[j].description)
    THEN "AttributeError"
    ELSE sections_fault(objs, i + 1, by_object, pmap)

\* the exception generate_json_html(data) raises, if any
generate_json_fault(d) ==
    LET names == object_names(d.objects)
        by_object == merge_location(fields_by_object(d.fields, 1, EmptyDict))
        pmap == parent_map(d.fields, 1, names, EmptyDict)
        objs == json_objects(d.objects, by_object)
    IN  IF parent_map_fault(d.fields) THEN "AttributeError"
        ELSE sections_fault(objs, 1, by_object, pmap)

\* generate_json_html(data): the page, as its navigation entries and sections
generate_json_html(d) ==
    LET names == object_names(d.objects)
        by_object == merge_location(fields_by_object(d.fields, 1, EmptyDict))
        by_enum == values_by_enum(d.enum_values, 1, EmptyDict)
        pmap == parent_map(d.fields, 1, names, EmptyDict)
        objs == json_objects(d.objects, by_object)
    IN  [kind |-> "json",
         nav |-> <<<<"#overview">>>> \o
                 [i \in DOMAIN objs |-> <<"#obj-">> \o Lower(objs[i].name)],
         sections |-> [i \in DOMAIN objs |->
                          json_section(objs[i], by_object, by_enum, pmap, names)]]

----------------------------------------------------------------------------
(* generate_html.py: generate_csv_html *)

\* lines 439-447: the hand-declared sections, (object name, display name)
sections ==
    << <<<<"Site">>, <<"Site">>>>,
       <<<<"Project">>, <<"Project">>>>,
       <<<<"Location">>, <<"Location">>>>,
       <<<<"SoilMatches">>, <<"Soil Matches">>>>,
       <<<<"EcologicalSite">>, <<"Ecological Site">>>>,
       <<<<"SoilData">>, <<"Soil Data">>>>,
       <<<<"DepthInterval">>, <<"Depth Intervals">>>> >>

\* bool(f.get("csv_column"))
is_csv_field(f) == Truthy(f.csv_column)

\* csv_fields_by_object without the filter of line 433
csv_fields_by_object_unfiltered(fields) == fields_by_object(fields, 1, EmptyDict)

\* lines 433-436: the rows with a CSV column, grouped by owning object
csv_fields_by_object(fields) ==
    fields_by_object(SelectSeq(fields, is_csv_field), 1, EmptyDict)

\* csv_type_cell showing the value column of the enum rows instead of the labels
csv_type_cell_raw_values(ftype, by_enum) ==
    IF ftype \in DOMAIN by_enum
    THEN [kind |-> "plain",
          text |-> Join([i \in DOMAIN by_enum[ftype] |-> escape(by_enum[ftype][i].value)])]
    ELSE IF ftype = <<"boolean">>
    THEN [kind |-> "span", text |-> <<"TRUE", SEP, "FALSE">>]
    ELSE [kind |-> "span", text |-> escape(ftype)]

\* lines 484-492: the type cell of one CSV row; the type is not stripped of "[]"
csv_type_cell(ftype, by_enum) ==
    IF ftype \in DOMAIN by_enum
    THEN [kind |-> "plain",
          text |-> Join([i \in DOMAIN by_enum[ftype] |-> escape(by_enum[ftype][i].label)])]
    ELSE IF ftype = <<"boolean">>
    THEN [kind |-> "span", text |-> <<"TRUE", SEP, "FALSE">>]
    ELSE [kind |-> "span", text |-> escape(ftype)]

\* lines 479-496: one table row
csv_row(f, by_enum) ==
    [name |-> escape(f.csv_column),
     type |-> csv_type_cell(f.type, by_enum),
     desc |-> escape(f.description),
     fault |-> EscapeFaults(f.description)]

\* lines 469-499: the section of one entry of sections
csv_section(entry, obj_fields, by_enum) ==
    [id |-> <<"csv-">> \o Lower(entry[1]),
     obj_name |-> entry[1],
     name |-> entry[2],
     rows |-> [i \in DOMAIN obj_fields |-> csv_row(obj_fields[i], by_enum)]]

\* lines 463-467: the entries of sections that get a section, in the fixed order
csv_emitted(by_object) ==
    LET has_fields(entry) == Get(by_object, entry[1], <<>>) # <<>>
    IN  SelectSeq(sections, has_fields)

\* the exception generate_csv_html(data) raises, if any
generate_csv_fault(d) ==
    LET by_object == csv_fields_by_object(d.fields)
        emitted == csv_emitted(by_object)
    IN  IF \E i \in DOMAIN emitted : \E j \in DOMAIN by_object[emitted[i][1]] :
               EscapeFaults(by_object[emitted[i][1]][j].description)
        THEN "AttributeError"
        ELSE "none"

\* generate_csv_html(data): the page; lines 450-452 put every entry of sections
\* in the navigation
generate_csv_html(d) ==
    LET by_object == csv_fields_by_object(d.fields)
        by_enum == values_by_enum(d.enum_values, 1, EmptyDict)
        emitted == csv_emitted(by_object)
    IN  [kind |-> "csv",
         nav |-> [i \in DOMAIN sections |-> <<"#csv-">> \o Lower(sections[i][1])],
         sections |-> [i \in DOMAIN emitted |->
                          csv_section(emitted[i], by_object[emitted[i][1]], by_enum)]]

----------------------------------------------------------------------------
(* generate_html_wp.py: generate_json_html *)

\* bool(f.get("json_name"))
wp_is_json_field(f) == Truthy(f.json_name)

RECURSIVE wp_fields_by_object(_, _, _)
\* lines 109-111
wp_fields_by_object(fields, i, acc) ==
    IF i > Len(fields) THEN acc
    ELSE wp_fields_by_object(fields, i + 1, AppendTo(acc, fields[i].object, fields[i]))

RECURSIVE wp_values_by_enum(_, _, _)
\* lines 113-115
wp_values_by_enum(enum_values, i, acc) ==
    IF i > Len(enum_values) THEN acc
    ELSE wp_values_by_enum(enum_values, i + 1,
                           AppendTo(acc, enum_values[i].enum, enum_values[i]))

RECURSIVE wp_parent_map(_, _, _, _)
\* lines 118-128
wp_parent_map(fields, i, names, acc) ==
    IF i > Len(fields) THEN acc
    ELSE LET field == fields[i]
             base_type == BaseType(field.type)
         IN  wp_parent_map(fields, i + 1, names,
                 IF Truthy(field.json_name) /\ base_type \in names
                 THEN Put(acc, base_type,
                          <<field.object, field.json_name, IsArray(field.type)>>)
                 ELSE acc)

RECURSIVE wp_PathDiverges(_, _, _)
\* compute_json_path(obj_name) of lines 130-138 never returns (RecursionError)
wp_PathDiverges(pmap, obj_name, chain) ==
    IF obj_name \in {Site, Location} THEN FALSE
    ELSE IF obj_name \notin DOMAIN pmap THEN FALSE
    ELSE IF obj_name \in chain THEN TRUE
    ELSE wp_PathDiverges(pmap, pmap[obj_name][1], chain \cup {obj_name})

RECURSIVE wp_compute_json_path(_, _)
\* lines 130-138
wp_compute_json_path(pmap, obj_name) ==
    IF obj_name \in {Site, Location} THEN <<"sites", ARR>>
    ELSE IF obj_name \notin DOMAIN pmap THEN Empty
    ELSE wp_compute_json_path(pmap, pmap[obj_name][1]) \o <<".">> \o pmap[obj_name][2]
         \o (IF pmap[obj_name][3] THEN <<ARR>> ELSE Empty)

\* lines 141-143: merge Location into Site
wp_merge_location(by_object) ==
    IF Location \in DOMAIN by_object /\ Site \in DOMAIN by_object
    THEN Del([by_object EXCEPT ![Site] = by_object[Site] \o by_object[Location]],
             Location)
    ELSE by_object

\* [f for f in fields_by_object.get(name, []) if is_json_field(f)]
wp_json_fields_of(by_object, name) ==
    SelectSeq(Get(by_object, name, <<>>), wp_is_json_field)

\* lines 148-155
wp_json_objects(objects, by_object) ==
    LET keep(obj) == obj.name # Location /\ wp_json_fields_of(by_object, obj.name) # <<>>
    IN  SelectSeq(objects, keep)

\* wp_json_type_cell showing the label column of the enum rows instead of the values
wp_json_type_cell_labels(base_type, by_enum, names) ==
    IF base_type \in DOMAIN by_enum
    THEN [kind |-> "plain",
          text |-> Join([i \in DOMAIN by_enum[base_type] |->
                            escape(by_enum[base_type][i].label)])]
    ELSE IF base_type = <<"boolean">>
    THEN [kind |-> "plain", text |-> <<"true", SEP, "false">>]
    ELSE IF base_type = <<"datetime">>
    THEN [kind |-> "plain", text |-> <<"ISO 8601 DateTime">>]
    ELSE IF base_type \in names
    THEN [kind |-> "link", text |-> escape(base_type),
          href |-> <<"#obj-">> \o Lower(base_type)]
    ELSE [kind |-> "plain", text |-> escape(base_type)]

\* lines 231-242: the type cell of one field row, without wrappers
wp_json_type_cell(base_type, by_enum, names) ==
    IF base_type \in DOMAIN by_enum
    THEN [kind |-> "plain",
          text |-> Join([i \in DOMAIN by_enum[base_type] |->
                            escape(by_enum[base_type][i].value)])]
    ELSE IF base_type = <<"boolean">>
    THEN [kind |-> "plain", text |-> <<"true", SEP, "false">>]
    ELSE IF base_type = <<"datetime">>
    THEN [kind |-> "plain", text |-> <<"ISO 8601 DateTime">>]
    ELSE IF base_type \in names
    THEN [kind |-> "link", text |-> escape(base_type),
          href |-> <<"#obj-">> \o Lower(base_type)]
    ELSE [kind |-> "plain", text |-> escape(base_type)]

\* lines 218-244: one table row
wp_json_row(f, by_enum, names) ==
    [name |-> IF IsArray(f.type) THEN escape(f.json_name) \o <<ARR>>
              ELSE escape(f.json_name),
     type |-> wp_json_type_cell(BaseType(f.type), by_enum, names),
     desc |-> escape(f.description),
     fault |-> EscapeFaults(f.description)]

\* lines 198-247: the section of one object
wp_json_section(obj, by_object, by_enum, pmap, names) ==
    LET obj_fields == wp_json_fields_of(by_object, obj.name)
    IN  [id |-> <<"obj-">> \o Lower(obj.name),
         name |-> escape(obj.name),
         desc |-> IF Truthy(obj.description) THEN escape(obj.description) ELSE Empty,
         path |-> escape(wp_compute_json_path(pmap, obj.name)),
         rows |-> [i \in DOMAIN obj_fields |->
                      wp_json_row(obj_fields[i], by_enum, names)]]

\* lines 118-128: ftype.endswith("[]") raises AttributeError for a row with a json_name
\* whose line was too short to hold a type
wp_parent_map_fault(fields) ==
    \E i \in DOMAIN fields : Truthy(fields[i].json_name) /\ fields[i].type = None

RECURSIVE wp_sections_fault(_, _, _, _)
\* the first exception the loop over json_objects meets: for each object in turn
\* its path is computed, then its rows are escaped
wp_sections_fault(objs, i, by_object, pmap) ==
    IF i > Len(objs) THEN "none"
    ELSE IF wp_PathDiverges(pmap, objs[i].name, {}) THEN "RecursionError"
    ELSE IF \E j \in DOMAIN wp_json_fields_of(by_object, objs[i].name) :
               EscapeFaults(wp_json_fields_of(by_object, objs[i].name)[j].description)
    THEN "AttributeError"
    ELSE wp_sections_fault(objs, i + 1, by_object, pmap)

\* the exception generate_json_html(data) of generate_html_wp.py raises, if any
wp_generate_json_fault(d) ==
    LET names == object_names(d.objects)
        by_object == wp_merge_location(wp_fields_by_object(d.fields, 1, EmptyDict))
        pmap == wp_parent_map(d.fields, 1, names, EmptyDict)
        objs == wp_json_objects(d.objects, by_object)
    IN  IF wp_parent_map_fault(d.fields) THEN "AttributeError"
        ELSE wp_sections_fault(objs, 1, by_object, pmap)

\* generate_json_html(data) of generate_html_wp.py
wp_generate_json_html(d) ==
    LET names == object_names(d.objects)
        by_object == wp_merge_location(wp_fields_by_object(d.fields, 1, EmptyDict))
        by_enum == wp_values_by_enum(d.enum_values, 1, EmptyDict)
        pmap == wp_parent_map(d.fields, 1, names, EmptyDict)
        objs == wp_json_objects(d.objects, by_object)
    IN  [kind |-> "json",
         nav |-> <<<<"#overview">>>> \o
                 [i \in DOMAIN objs |-> <<"#obj-">> \o Lower(objs[i].name)],
         sections |-> [i \in DOMAIN objs |->
                          wp_json_section(objs[i], by_object, by_enum, pmap, names)]]

----------------------------------------------------------------------------
(* generate_html_wp.py: generate_csv_html *)

\* lines 281-289
wp_sections ==
    << <<<<"Site">>, <<"Site">>>>,
       <<<<"Project">>, <<"Project">>>>,
       <<<<"Location">>, <<"Location">>>>,
       <<<<"SoilMatches">>, <<"Soil Matches">>>>,
       <<<<"EcologicalSite">>, <<"Ecological Site">>>>,
       <<<<"SoilData">>, <<"Soil Data">>>>,
       <<<<"DepthInterval">>, <<"Depth Intervals">>>> >>

\* bool(f.get("csv_column"))
wp_is_csv_field(f) == Truthy(f.csv_column)

\* lines 276-279
wp_csv_fields_by_object(fields) ==
    wp_fields_by_object(SelectSeq(fields, wp_is_csv_field), 1, EmptyDict)

\* lines 323-330: the type cell of one CSV row; the type is not stripped of "[]"
wp_csv_type_cell(ftype, by_enum) ==
    IF ftype \in DOMAIN by_enum
    THEN [kind |-> "plain",
          text |-> Join([i \in DOMAIN by_enum[ftype] |-> escape(by_enum[ftype][i].label)])]
    ELSE IF ftype = <<"boolean">>
    THEN [kind |-> "plain", text |-> <<"TRUE", SEP, "FALSE">>]
    ELSE [kind |-> "plain", text |-> escape(ftype)]

\* lines 318-332: one table row
wp_csv_row(f, by_enum) ==
    [name |-> escape(f.csv_column),
     type |-> wp_csv_type_cell(f.type, by_enum),
     desc |-> escape(f.description),
     fault |-> EscapeFaults(f.description)]

\* lines 308-335: the section of one entry of sections
wp_csv_section(entry, obj_fields, by_enum) ==
    [id |-> <<"csv-">> \o Lower(entry[1]),
     obj_name |-> entry[1],
     name |-> entry[2],
     rows |-> [i \in DOMAIN obj_fields |-> wp_csv_row(obj_fields[i], by_enum)]]

\* lines 303-306 (and the same test at line 293 for the navigation)
wp_csv_emitted(by_object) ==
    LET has_fields(entry) == Get(by_object, entry[1], <<>>) # <<>>
    IN  SelectSeq(wp_sections, has_fields)

\* the exception generate_csv_html(data) of generate_html_wp.py raises, if any
wp_generate_csv_fault(d) ==
    LET by_object == wp_csv_fields_by_object(d.fields)
        emitted == wp_csv_emitted(by_object)
    IN  IF \E i \in DOMAIN emitted : \E j \in DOMAIN by_object[emitted[i][1]] :
               EscapeFaults(by_object[emitted[i][1]][j].description)
        THEN "AttributeError"
        ELSE "none"

\* generate_csv_html(data) of generate_html_wp.py; lines 291-294 put in the
\* navigation only the entries of sections that have fields
wp_generate_csv_html(d) ==
    LET by_object == wp_csv_fields_by_object(d.fields)
        by_enum == wp_values_by_enum(d.enum_values, 1, EmptyDict)
        emitted == wp_csv_emitted(by_object)
    IN  [kind |-> "csv",
         nav |-> [i \in DOMAIN emitted |-> <<"#csv-">> \o Lower(emitted[i][1])],
         sections |-> [i \in DOMAIN emitted |->
                          wp_csv_section(emitted[i], by_object[emitted[i][1]], by_enum)]]

----------------------------------------------------------------------------
(* The runs of the three generators *)

NoPage == [kind |-> "none"]
NoData == [objects |-> <<>>, fields |-> <<>>, enum_values |-> <<>>]
NoTree == [children |-> EmptyDict, primitives |-> EmptyDict, descriptions |-> EmptyDict]

\* a file of the input directory: absent, or present with the given lines
FilesOf(lineSeqs) ==
    {[present |-> FALSE, lines |-> <<>>]} \cup
    {[present |-> TRUE, lines |-> l] : l \in lineSeqs}

\* the state at the start of main(), for input tables drawn from the given sets
InitWith(objectFiles, fieldFiles, enumFiles) ==
    /\ prog \in {"hierarchy", "standalone", "wp"}
    /\ pc = "start"
    /\ files \in [objects : FilesOf(objectFiles),
                  fields : FilesOf(fieldFiles),
                  enum_values : FilesOf(enumFiles)]
    /\ warnings = {}
    /\ data = NoData
    /\ tree = NoTree
    /\ html = NoPage
    /\ fault = "none"
    /\ disk = [hierarchy |-> NoPage, json |-> NoPage, csv |-> NoPage]

\* generate_hierarchy.main, line 284: build_tree() loads fields.csv, objects.csv and
\* enum_values.csv and resolves them; a missing file ends the run
hier_main_build ==
    /\ prog = "hierarchy"
    /\ pc = "start"
    /\ IF \/ hier_load_csv_faults(files.fields)
          \/ hier_load_csv_faults(files.objects)
          \/ hier_load_csv_faults(files.enum_values)
       THEN /\ pc' = "aborted"
            /\ fault' = "FileNotFoundError"
            /\ UNCHANGED <<data, tree>>
       ELSE /\ data' = [objects |-> hier_load_csv(files.objects, ObjectsHeader),
                        fields |-> hier_load_csv(files.fields, FieldsHeader),
                        enum_values |-> hier_load_csv(files.enum_values, EnumValuesHeader)]
            /\ IF build_tree_fault(data'.fields) # "none"
               THEN /\ pc' = "aborted"
                    /\ fault' = build_tree_fault(data'.fields)
                    /\ UNCHANGED tree
               ELSE /\ tree' = build_tree(data'.objects, data'.fields, data'.enum_values)
                    /\ pc' = "built"
                    /\ UNCHANGED fault
    /\ UNCHANGED <<prog, files, warnings, html, disk>>

\* generate_hierarchy.main, line 285
hier_main_generate ==
    /\ prog = "hierarchy"
    /\ pc = "built"
    /\ IF hier_generate_fault(tree) # "none"
       THEN pc' = "aborted" /\ fault' = hier_generate_fault(tree) /\ UNCHANGED html
       ELSE pc' = "generated" /\ html' = hier_generate_html(tree) /\ UNCHANGED fault
    /\ UNCHANGED <<prog, files, warnings, data, tree, disk>>

\* generate_hierarchy.main, lines 287-289
hier_main_write ==
    /\ prog = "hierarchy"
    /\ pc = "generated"
    /\ disk' = [disk EXCEPT !.hierarchy = html]
    /\ pc' = "done"
    /\ UNCHANGED <<prog, files, warnings, data, tree, html, fault>>

\* load_all_data() of generate_html.py
load_all_data(fs) ==
    LET o == load_csv(fs.objects, ObjectsHeader)
        f == load_csv(fs.fields, FieldsHeader)
        e == load_csv(fs.enum_values, EnumValuesHeader)
    IN  [data |-> [objects |-> o.rows, fields |-> f.rows, enum_values |-> e.rows],
         warned |-> (IF o.warned THEN {"objects.csv"} ELSE {}) \cup
                    (IF f.warned THEN {"fields.csv"} ELSE {}) \cup
                    (IF e.warned THEN {"enum_values.csv"} ELSE {})]

\* generate_html.main, lines 539-543
main_load ==
    /\ prog = "standalone"
    /\ pc = "start"
    /\ data' = load_all_data(files).data
    /\ warnings' = load_all_data(files).warned
    /\ pc' = "loaded"
    /\ UNCHANGED <<prog, files, tree, html, fault, disk>>

\* main_generate_json for a generate_json_html that does the merge of lines 269-271
\* on the rows it was given (every row of Location is handed to Site) instead of on
\* its own grouping
main_generate_json_merging_rows ==
    /\ prog = "standalone"
    /\ pc = "loaded"
    /\ IF generate_json_fault(data) # "none"
       THEN pc' = "aborted" /\ fault' = generate_json_fault(data) /\ UNCHANGED <<html, data>>
       ELSE /\ pc' = "json_generated"
            /\ html' = generate_json_html(data)
            /\ data' = [data EXCEPT !.fields =
                            [i \in DOMAIN data.fields |->
                                IF data.fields[i].object = Location
                                   /\ \E j \in DOMAIN data.fields : data.fields[j].object = Site
                                THEN [data.fields[i] EXCEPT !.object = Site]
                                ELSE data.fields[i]]]
            /\ UNCHANGED fault
    /\ UNCHANGED <<prog, files, warnings, tree, disk>>

\* generate_html.main, line 546; generate_json_html groups and merges in its own
\* fields_by_object (lines 233-235, 269-271) and assigns to no list or row of data
main_generate_json ==
    /\ prog = "standalone"
    /\ pc = "loaded"
    /\ IF generate_json_fault(data) # "none"
       THEN pc' = "aborted" /\ fault' = generate_json_fault(data) /\ UNCHANGED html
       ELSE pc' = "json_generated" /\ html' = generate_json_html(data) /\ UNCHANGED fault
    /\ UNCHANGED <<prog, files, warnings, data, tree, disk>>

\* generate_html.main, lines 547-550
main_write_json ==
    /\ prog = "standalone"
    /\ pc = "json_generated"
    /\ disk' = [disk EXCEPT !.json = html]
    /\ pc' = "json_written"
    /\ UNCHANGED <<prog, files, warnings, data, tree, html, fault>>

\* generate_html.main, line 553
main_generate_csv ==
    /\ prog = "standalone"
    /\ pc = "json_written"
    /\ IF generate_csv_fault(data) # "none"
       THEN pc' = "aborted" /\ fault' = generate_csv_fault(data) /\ UNCHANGED html
       ELSE pc' = "csv_generated" /\ html' = generate_csv_html(data) /\ UNCHANGED fault
    /\ UNCHANGED <<prog, files, warnings, data, tree, disk>>

\* generate_html.main, lines 554-559
main_write_csv ==
    /\ prog = "standalone"
    /\ pc = "csv_generated"
    /\ disk' = [disk EXCEPT !.csv = html]
    /\ pc' = "done"
    /\ UNCHANGED <<prog, files, warnings, data, tree, html, fault>>

\* load_all_data() of generate_html_wp.py
wp_load_all_data(fs) ==
    LET o == wp_load_csv(fs.objects, ObjectsHeader)
        f == wp_load_csv(fs.fields, FieldsHeader)
        e == wp_load_csv(fs.enum_values, EnumValuesHeader)
    IN  [data |-> [objects |-> o.rows, fields |-> f.rows, enum_values |-> e.rows],
         warned |-> (IF o.warned THEN {"objects.csv"} ELSE {}) \cup
                    (IF f.warned THEN {"fields.csv"} ELSE {}) \cup
                    (IF e.warned THEN {"enum_values.csv"} ELSE {})]

\* generate_html_wp.main, lines 355-356
wp_main_load ==
    /\ prog = "wp"
    /\ pc = "start"
    /\ data' = wp_load_all_data(files).data
    /\ warnings' = wp_load_all_data(files).warned
    /\ pc' = "loaded"
    /\ UNCHANGED <<prog, files, tree, html, fault, disk>>

\* generate_html_wp.main, line 359
wp_main_generate_json ==
    /\ prog = "wp"
    /\ pc = "loaded"
    /\ IF wp_generate_json_fault(data) # "none"
       THEN pc' = "aborted" /\ fault' = wp_generate_json_fault(data) /\ UNCHANGED html
       ELSE pc' = "json_generated" /\ html' = wp_generate_json_html(data) /\ UNCHANGED fault
    /\ UNCHANGED <<prog, files, warnings, data, tree, disk>>

\* generate_html_wp.main, lines 360-363
wp_main_write_json ==
    /\ prog = "wp"
    /\ pc = "json_generated"
    /\ disk' = [disk EXCEPT !.json = html]
    /\ pc' = "json_written"
    /\ UNCHANGED <<prog, files, warnings, data, tree, html, fault>>

\* generate_html_wp.main, line 366
wp_main_generate_csv ==
    /\ prog = "wp"
    /\ pc = "json_written"
    /\ IF wp_generate_csv_fault(data) # "none"
       THEN pc' = "aborted" /\ fault' = wp_generate_csv_fault(data) /\ UNCHANGED html
       ELSE pc' = "csv_generated" /\ html' = wp_generate_csv_html(data) /\ UNCHANGED fault
    /\ UNCHANGED <<prog, files, warnings, data, tree, disk>>

\* generate_html_wp.main, lines 367-372
wp_main_write_csv ==
    /\ prog = "wp"
    /\ pc = "csv_generated"
    /\ disk' = [disk EXCEPT !.csv = html]
    /\ pc' = "done"
    /\ UNCHANGED <<prog, files, warnings, data, tree, html, fault>>

Next ==
    \/ hier_main_build
    \/ hier_main_generate
    \/ hier_main_write
    \/ main_load
    \/ main_generate_json
    \/ main_write_json
    \/ main_generate_csv
    \/ main_write_csv
    \/ wp_main_load
    \/ wp_main_generate_json
    \/ wp_main_write_json
    \/ wp_main_generate_csv
    \/ wp_main_write_csv

----------------------------------------------------------------------------
(* The explored inputs *)

\* all sequences over S of at most n elements
SeqsUpTo(S, n) == UNION {[1..k -> S] : k \in 0..n}

\* objects.csv: lines with distinct names (name is the table's key)
ObjectFiles(names) ==
    {l \in SeqsUpTo({<<n, <<"d">>>> : n \in names}, MaxObjects) :
        \A i, j \in DOMAIN l : l[i][1] = l[j][1] => i = j}

Note == <<"Note">>
Status == <<"Status">>

\* Field types: primitives, an Object reference and an enum, each with and
\* without the array marker
TypeTexts ==
    {<<"string">>, <<"boolean">>, <<"boolean", ARR>>, Note, Note \o <<ARR>>,
     Status, Status \o <<ARR>>}

\* fields.csv lines of the type resolution: fields of Site of every type with both
\* names, a CSV-only and a JSON-only field, and a field owned by Note
TypeFieldLines ==
    {<<Site, <<"a">>, <<"c">>, t, <<"d">>>> : t \in TypeTexts}
    \cup {<<Site, Empty, <<"c">>, Note, <<"d">>>>,
          <<Site, <<"a">>, Empty, Status, Empty>>,
          <<Note, <<"a">>, <<"c">>, <<"boolean">>, <<"d">>>>}

\* enum_values.csv lines: an enum of two values, and an enum named like an Object
TypeEnumLines ==
    {<<Status, <<"A">>, <<"Active">>>>,
     <<Status, <<"I">>, <<"Inactive">>>>,
     <<Note, <<"N">>, <<"Noted">>>>}

Init ==
    InitWith(ObjectFiles({Site, Note}),
             SeqsUpTo(TypeFieldLines, MaxFields),
             SeqsUpTo(TypeEnumLines, MaxEnumValues))

Spec == Init /\ [][Next]_vars

\* fields.csv lines of the Location-into-Site merge: fields of Site and of Location,
\* JSON-only, CSV-only and both, primitive and Object reference, and a field of
\* Site whose type is Location
MergeFieldLines ==
    {<<o, n[1], n[2], t, <<"d">>>> :
        o \in {Site, Location},
        n \in {<<<<"a">>, Empty>>, <<<<"b">>, <<"c">>>>, <<Empty, <<"c">>>>},
        t \in {<<"string">>, Note}}
    \cup {<<Site, <<"loc">>, Empty, Location, <<"d">>>>}

MergeEnumLines == {<<Status, <<"A">>, <<"Active">>>>}

InitMerge ==
    InitWith(ObjectFiles({Site, Location, Note}),
             SeqsUpTo(MergeFieldLines, MaxFields),
             SeqsUpTo(MergeEnumLines, MaxEnumValues))

SpecMerge == InitMerge /\ [][Next]_vars

\* fields.csv lines, complete and one cell short (no description cell), of fields
\* that are JSON-only, CSV-only and both
ShortFieldLines ==
    {<<o, n[1], n[2], <<"string">>, <<"d">>>> :
        o \in {Site, Note},
        n \in {<<<<"a">>, Empty>>, <<<<"b">>, <<"c">>>>, <<Empty, <<"c">>>>}}
    \cup
    {<<o, n[1], n[2], <<"string">>>> :
        o \in {Site, Note},
        n \in {<<<<"a">>, Empty>>, <<<<"b">>, <<"c">>>>, <<Empty, <<"c">>>>}}
    \cup
    {<<Note, <<"a">>, Empty>>, <<Site, Empty, <<"c">>>>}

InitShort ==
    InitWith(ObjectFiles({Site, Note}),
             SeqsUpTo(ShortFieldLines, MaxFields),
             SeqsUpTo(MergeEnumLines, MaxEnumValues))

SpecShort == InitShort /\ [][Next]_vars

Widget == <<"Widget">>

\* fields.csv lines of the literal types: fields of Site and of an Object outside
\* the CSV section list, JSON-only and with both names, of a type no table knows
\* with and without the array marker, and of a type that is an enum only when
\* enum_values.csv has its rows
WidgetFieldLines ==
    {<<o, <<"name">>, c, t, <<"d">>>> :
        o \in {Site, Widget},
        c \in {Empty, <<"c">>},
        t \in {<<"string">>, <<"string", ARR>>, Status}}

InitWidget ==
    InitWith(ObjectFiles({Site, Widget}),
             SeqsUpTo(WidgetFieldLines, MaxFields),
             SeqsUpTo(MergeEnumLines, MaxEnumValues))

SpecWidget == InitWidget /\ [][Next]_vars

Project == <<"Project">>

\* the json_name the path lines give the fields of an owner
PathFieldName(o) ==
    CASE o = Site -> <<"s">>
      [] o = Location -> <<"l">>
      [] o = Note -> <<"n">>
      [] o = Project -> <<"p">>

\* fields.csv lines of the reference graph: JSON-only fields of Site, Location,
\* Note and Project that refer to Note (as an array) or to Project or are
\* primitive, so that chains of two hops from Site and from Location, objects
\* with no parent, and references among Note and Project that never pass through
\* Site all occur
PathFieldLines ==
    {<<o, PathFieldName(o), Empty, t, <<"d">>>> :
        o \in {Site, Location, Note, Project},
        t \in {Note \o <<ARR>>, Project, <<"string">>}}

InitPath ==
    InitWith(ObjectFiles({Note, Project}),
             SeqsUpTo(PathFieldLines, MaxFields),
             SeqsUpTo(MergeEnumLines, MaxEnumValues))

SpecPath == InitPath /\ [][Next]_vars

\* fields.csv lines of the CSV sections: fields of Location and Site (third and
\* first of the fixed section list) and of Note (not in the list), CSV-only, with
\* both names and JSON-only
CsvFieldLines ==
    {<<o, n[1], n[2], <<"string">>, <<"d">>>> :
        o \in {Location, Site, Note},
        n \in {<<Empty, <<"c">>>>, <<<<"a">>, <<"k">>>>, <<<<"a">>, Empty>>}}

InitCsv ==
    InitWith(ObjectFiles({Site, Note}),
             SeqsUpTo(CsvFieldLines, MaxFields),
             SeqsUpTo(MergeEnumLines, MaxEnumValues))

SpecCsv == InitCsv /\ [][Next]_vars

\* fields.csv lines for the comparison of the two sectioned variants: an array of
\* Note and an enum field of Site, with JSON name and CSV column, a boolean field
\* of Note, a field of Location, and a field of Note whose type is Note itself
VariantFieldLines ==
    {<<Site, <<"a">>, <<"c">>, Note \o <<ARR>>, <<"d">>>>,
     <<Site, <<"b">>, <<"k">>, Status, <<"d">>>>,
     <<Note, <<"a">>, <<"c">>, <<"boolean">>, <<"d">>>>,
     <<Location, <<"b">>, <<"c">>, <<"string">>, <<"d">>>>,
     <<Note, <<"n">>, Empty, Note, <<"d">>>>}

VariantEnumLines ==
    {<<Status, <<"A">>, <<"Active">>>>,
     <<Status, <<"I">>, <<"Inactive">>>>}

InitVariants ==
    InitWith(ObjectFiles({Site, Note}),
             SeqsUpTo(VariantFieldLines, MaxFields),
             SeqsUpTo(VariantEnumLines, MaxEnumValues))

SpecVariants == InitVariants /\ [][Next]_vars

----------------------------------------------------------------------------
(* Reference notions used by the claims *)

Tables == {"objects", "fields", "enum_values"}

FileName(t) ==
    CASE t = "objects" -> "objects.csv"
      [] t = "fields" -> "fields.csv"
      [] t = "enum_values" -> "enum_values.csv"

\* build_tree has returned
Built == prog = "hierarchy" /\ pc \in {"built", "generated", "done"}

\* the names of objects.csv, as loaded
Names == object_names(data.objects)

\* the Field rows owned by o, in input order
RowsOf(o) == LET owned(f) == f.object = o IN SelectSeq(data.fields, owned)

\* the Field rows owned by o that have a json_name, in input order
JsonRowsOf(o) == SelectSeq(RowsOf(o), is_json_field)

\* the Field rows owned by o that have a csv_column, in input order
CsvRowsOf(o) == SelectSeq(RowsOf(o), is_csv_field)

\* a Field row whose type, stripped of the array marker, names a known Object
IsObjectRef(f) == BaseType(f.type) \in Names

NotObjectRef(f) == ~IsObjectRef(f)

\* the children entry of an Object-reference row
ChildEntry(f) == <<f.json_name, BaseType(f.type), IsArray(f.type)>>

Owners == {data.fields[i].object : i \in DOMAIN data.fields}

Range(q) == {q[i] : i \in DOMAIN q}

\* the names of the enums of enum_values.csv, as loaded
EnumNames == {data.enum_values[i].enum : i \in DOMAIN data.enum_values}

\* build_tree merged primitives[Location] into primitives[Site]
HierMerged ==
    /\ SelectSeq(JsonRowsOf(Site), NotObjectRef) # <<>>
    /\ SelectSeq(JsonRowsOf(Location), NotObjectRef) # <<>>

\* the number of rows build_tree is to put in primitives[o]
PrimitiveCount(o) ==
    IF HierMerged /\ o = Location THEN 0
    ELSE IF HierMerged /\ o = Site
    THEN Len(SelectSeq(JsonRowsOf(Site), NotObjectRef))
         + Len(SelectSeq(JsonRowsOf(Location), NotObjectRef))
    ELSE Len(SelectSeq(JsonRowsOf(o), NotObjectRef))

\* the pages a run holds in memory or has written
Pages == {html, disk.hierarchy, disk.json, disk.csv}
HierPages == {p \in Pages : p.kind = "hierarchy"}
JsonPages == {p \in Pages : p.kind = "json"}
CsvPages == {p \in Pages : p.kind = "csv"}

\* the sectioned JSON renderers merged Location's rows into Site's
JsonMerged == RowsOf(Site) # <<>> /\ RowsOf(Location) # <<>>

\* the Field rows the sectioned JSON renderers are to list for object o
JsonSectionRows(o) ==
    IF JsonMerged /\ o = Site THEN JsonRowsOf(Site) \o JsonRowsOf(Location)
    ELSE IF JsonMerged /\ o = Location THEN <<>>
    ELSE JsonRowsOf(o)

\* the Field rows build_tree is to put in primitives[o]
HierPrimRows(o) ==
    IF HierMerged /\ o = Site
    THEN SelectSeq(JsonRowsOf(Site), NotObjectRef)
         \o SelectSeq(JsonRowsOf(Location), NotObjectRef)
    ELSE IF HierMerged /\ o = Location THEN <<>>
    ELSE SelectSeq(JsonRowsOf(o), NotObjectRef)

\* the sections of page p that belong to object o
JsonSectionsOf(p, o) == {k \in DOMAIN p.sections : p.sections[k].name = escape(o)}
CsvSectionsOf(p, o) == {k \in DOMAIN p.sections : p.sections[k].obj_name = o}

\* the names of the hand-declared CSV sections
CsvSectionNames == {sections[i][1] : i \in DOMAIN sections}

----------------------------------------------------------------------------
(* C1 *)

\* C1: in every generator, loading a table whose file is absent gives an empty row
\* sequence and a warning, and the run goes on (no generator ends with the
\* FileNotFoundError of the absent file).
C1_MissingTableIsNotFatal ==
    pc # "start" =>
        \A t \in Tables :
            ~files[t].present =>
                /\ fault # "FileNotFoundError"
                /\ data[t] = <<>>
                /\ FileName(t) \in warnings

----------------------------------------------------------------------------
(* C2 *)

\* C2 as stated: build_tree records every Field row whose base type names a known
\* Object in children[owner] as (field name, base type, is_array), and primitives
\* holds none of these rows (it holds exactly as many entries as there are other
\* rows).
C2_EveryObjectRefRowInChildren ==
    Built =>
        /\ \A i \in DOMAIN data.fields :
              IsObjectRef(data.fields[i]) =>
                  /\ data.fields[i].object \in DOMAIN tree.children
                  /\ ChildEntry(data.fields[i]) \in Range(tree.children[data.fields[i].object])
        /\ \A o \in Owners \cup DOMAIN tree.primitives :
              Len(Get(tree.primitives, o, <<>>)) = PrimitiveCount(o)

\* C2 amended: build_tree records every Field row with a non-empty json_name whose
\* base type names a known Object in children[owner] as (field name, base type,
\* is_array), in row order and nothing else, and never in primitives[owner], also
\* when an enum has the name of the Object; a row with an empty json_name is
\* recorded nowhere.
C2_JsonObjectRefRowsInChildren ==
    Built =>
        /\ \A o \in Owners \cup DOMAIN tree.children :
              Get(tree.children, o, <<>>) =
                  [i \in DOMAIN SelectSeq(JsonRowsOf(o), IsObjectRef) |->
                      ChildEntry(SelectSeq(JsonRowsOf(o), IsObjectRef)[i])]
        /\ \A o \in Owners \cup DOMAIN tree.primitives :
              Len(Get(tree.primitives, o, <<>>)) = PrimitiveCount(o)

\* C2 witness: build_tree has resolved a field whose type names an Object that is
\* also the name of an enum, and the field is in children
C2_Witness ==
    /\ Built
    /\ \E i \in DOMAIN data.fields :
          /\ is_json_field(data.fields[i])
          /\ IsObjectRef(data.fields[i])
          /\ BaseType(data.fields[i].type) \in EnumNames
          /\ IsArray(data.fields[i].type)
          /\ ChildEntry(data.fields[i]) \in Range(tree.children[data.fields[i].object])

----------------------------------------------------------------------------
(* C3 *)

\* C3 as stated: Location contributes nothing to any output: no container in the
\* nested-box diagram, no section in the sectioned JSON output, no section in the
\* CSV output.
C3_LocationInNoOutput ==
    /\ \A p \in HierPages : \A k \in DOMAIN p.nodes : p.nodes[k].obj_name # Location
    /\ \A p \in JsonPages : JsonSectionsOf(p, Location) = {}
    /\ \A p \in CsvPages : CsvSectionsOf(p, Location) = {}

\* C3 amended: Location gets no section and no navigation entry in the sectioned
\* JSON output (both variants), for every input; the nested-box diagram has a
\* container for Location only when a Field row with a json_name has Location as
\* its base type; the CSV output (both variants) has a section for Location exactly
\* when Location has a field with a csv_column.
C3_LocationOnlyWhereDeclared ==
    /\ \A p \in JsonPages :
          /\ JsonSectionsOf(p, Location) = {}
          /\ \A k \in DOMAIN p.sections : p.sections[k].id # <<"obj-", "location">>
          /\ \A k \in DOMAIN p.nav : p.nav[k] # <<"#obj-", "location">>
    /\ \A p \in HierPages :
          (\E k \in DOMAIN p.nodes : p.nodes[k].obj_name = Location) =>
              \E i \in DOMAIN data.fields :
                  /\ is_json_field(data.fields[i])
                  /\ BaseType(data.fields[i].type) = Location
                  /\ Location \in Names
    /\ \A p \in CsvPages :
          (CsvSectionsOf(p, Location) # {}) <=> (CsvRowsOf(Location) # <<>>)

\* C3 witness: a sectioned JSON page was written for an input in which Location is
\* an Object with JSON fields of its own
C3_Witness ==
    /\ disk.json.kind = "json"
    /\ Location \in Names
    /\ Site \in Names
    /\ JsonRowsOf(Location) # <<>>
    /\ Len(disk.json.sections) > 0

----------------------------------------------------------------------------
(* C4 *)

\* C4: whenever Location owns fields with a json_name, each of them is attributed
\* to Site after the merge: in primitives[Site] (children[Site] for an Object
\* reference) of the nested-box resolver, and in the rows of Site's section of the
\* sectioned JSON renderers, after Site's own fields; whether or not Site has
\* fields of its own.
C4_LocationFieldsAttributedToSite ==
    /\ Built =>
          \A i \in DOMAIN JsonRowsOf(Location) :
              LET f == JsonRowsOf(Location)[i]
              IN  IF IsObjectRef(f)
                  THEN ChildEntry(f) \in Range(Get(tree.children, Site, <<>>))
                  ELSE \E e \in Range(Get(tree.primitives, Site, <<>>)) :
                          e[1] = f.json_name /\ e[3] = f.description
    /\ \A p \in JsonPages :
          (Site \in Names /\ JsonRowsOf(Location) # <<>>) =>
              \E k \in JsonSectionsOf(p, Site) :
                  /\ Len(p.sections[k].rows) =
                         Len(JsonRowsOf(Site)) + Len(JsonRowsOf(Location))
                  /\ \A i \in DOMAIN JsonRowsOf(Location) :
                        p.sections[k].rows[Len(JsonRowsOf(Site)) + i].name =
                            json_row(JsonRowsOf(Location)[i], EmptyDict, {}).name

----------------------------------------------------------------------------
(* C5 *)

BoolJson == <<"true", SEP, "false">>
BoolCsv == <<"TRUE", SEP, "FALSE">>

IsBoolean(f) == BaseType(f.type) = <<"boolean">>

\* C5: every Field row whose type stripped of the array marker is boolean is
\* rendered with the type label 'true, false' by build_tree and generate_json_html
\* and 'TRUE, FALSE' by generate_csv_html, with or without the [] marker.
C5_BooleanLabel ==
    /\ Built =>
          \A o \in DOMAIN tree.primitives : \A i \in DOMAIN HierPrimRows(o) :
              IsBoolean(HierPrimRows(o)[i]) => tree.primitives[o][i][2] = BoolJson
    /\ \A p \in JsonPages : \A o \in Names : \A k \in JsonSectionsOf(p, o) :
          \A i \in DOMAIN JsonSectionRows(o) :
              IsBoolean(JsonSectionRows(o)[i]) =>
                  p.sections[k].rows[i].type.text = BoolJson
    /\ \A p \in CsvPages : \A o \in CsvSectionNames : \A k \in CsvSectionsOf(p, o) :
          \A i \in DOMAIN CsvRowsOf(o) :
              IsBoolean(CsvRowsOf(o)[i]) =>
                  p.sections[k].rows[i].type.text = BoolCsv

----------------------------------------------------------------------------
(* C6 *)

\* the (name, description) pairs of a list of primitives entries
PrimKeys(prims) == [i \in DOMAIN prims |-> <<prims[i][1], prims[i][3]>>]

\* the (name, description) pairs of a list of Field rows
RowKeys(rows) == [i \in DOMAIN rows |-> <<rows[i].json_name, rows[i].description>>]

\* the name cells of the rows of a section
NameCells(rows) == [i \in DOMAIN rows |-> rows[i].name]

\* the name cell the sectioned JSON renderers give a Field row
JsonNameCell(f) ==
    IF IsArray(f.type) THEN escape(f.json_name) \o <<ARR>> ELSE escape(f.json_name)

\* the Field rows of Site and Location that have a json_name, in input order
SiteAndLocationJsonRows ==
    LET owned(f) == f.object \in {Site, Location} /\ is_json_field(f)
    IN  SelectSeq(data.fields, owned)

\* the resolved lists of every object other than Site keep the input row order
OwnOrderKept(o) ==
    /\ Built =>
          /\ Get(tree.children, o, <<>>) =
                 [i \in DOMAIN SelectSeq(JsonRowsOf(o), IsObjectRef) |->
                     ChildEntry(SelectSeq(JsonRowsOf(o), IsObjectRef)[i])]
          /\ (~HierMerged \/ o # Site) =>
                 PrimKeys(Get(tree.primitives, o, <<>>)) = RowKeys(HierPrimRows(o))
    /\ \A p \in JsonPages : \A k \in JsonSectionsOf(p, o) :
          (~JsonMerged \/ o # Site) =>
              NameCells(p.sections[k].rows) =
                  [i \in DOMAIN JsonRowsOf(o) |-> JsonNameCell(JsonRowsOf(o)[i])]
    /\ \A p \in CsvPages : \A k \in CsvSectionsOf(p, o) :
          NameCells(p.sections[k].rows) =
              [i \in DOMAIN CsvRowsOf(o) |-> escape(CsvRowsOf(o)[i].csv_column)]

\* C6 as stated: every resolved list keeps the relative order of the input rows,
\* Site's list after the merge included: there the rows of Site and of Location
\* appear in the order of their rows in the Fields table.
C6_InputOrderAlsoAfterMerge ==
    /\ \A o \in Owners \cup Names : OwnOrderKept(o)
    /\ (Built /\ HierMerged) =>
          PrimKeys(tree.primitives[Site]) =
              RowKeys(SelectSeq(SiteAndLocationJsonRows, NotObjectRef))
    /\ \A p \in JsonPages : \A k \in JsonSectionsOf(p, Site) :
          JsonMerged =>
              NameCells(p.sections[k].rows) =
                  [i \in DOMAIN SiteAndLocationJsonRows |->
                      JsonNameCell(SiteAndLocationJsonRows[i])]

\* C6 amended: every resolved list keeps the relative order of the input rows of
\* its object; Site's list after the merge is Site's own rows in input order
\* followed by Location's rows in input order, so a Location row that precedes a
\* Site row in the Fields table follows it in Site's list.
C6_OwnOrderThenLocation ==
    /\ \A o \in Owners \cup Names : OwnOrderKept(o)
    /\ (Built /\ HierMerged) =>
          PrimKeys(tree.primitives[Site]) = RowKeys(HierPrimRows(Site))
    /\ \A p \in JsonPages : \A k \in JsonSectionsOf(p, Site) :
          JsonMerged =>
              NameCells(p.sections[k].rows) =
                  [i \in DOMAIN JsonSectionRows(Site) |->
                      JsonNameCell(JsonSectionRows(Site)[i])]

\* C6 witness: a sectioned JSON page whose Site section lists a field of Site and
\* then a field of Location, for a Fields table in which the Location row is first
C6_Witness ==
    /\ disk.json.kind = "json"
    /\ Len(data.fields) = 2
    /\ data.fields[1].object = Location
    /\ data.fields[2].object = Site
    /\ data.fields[1].json_name = <<"a">>
    /\ data.fields[2].json_name = <<"b">>
    /\ \E k \in JsonSectionsOf(disk.json, Site) :
          NameCells(disk.json.sections[k].rows) = << <<"b">>, <<"a">> >>

----------------------------------------------------------------------------
(* C7 *)

\* C7: in each output format an object without qualifying fields gets no section
\* and no navigation entry, in the standalone and in the WordPress variant.
C7_NoFieldsNoSectionNoNav ==
    /\ \A p \in JsonPages : \A o \in Names :
          JsonSectionRows(o) = <<>> =>
              /\ JsonSectionsOf(p, o) = {}
              /\ \A k \in DOMAIN p.nav : p.nav[k] # <<"#obj-">> \o Lower(o)
    /\ \A p \in CsvPages : \A o \in CsvSectionNames \cup Names :
          CsvRowsOf(o) = <<>> =>
              /\ CsvSectionsOf(p, o) = {}
              /\ \A k \in DOMAIN p.nav : p.nav[k] # <<"#csv-">> \o Lower(o)

----------------------------------------------------------------------------
(* C8 *)

\* the nested-box run is past build_tree and Site is in none of the resolved maps
SiteMissing ==
    /\ prog = "hierarchy"
    /\ pc # "start"
    /\ fault # "FileNotFoundError"
    /\ Site \notin DOMAIN tree.descriptions
    /\ Site \notin DOMAIN tree.children
    /\ Site \notin DOMAIN tree.primitives

\* the container render_node emits for an object that is in none of the maps
EmptySiteNode ==
    [label |-> <<"sites", ARR>>, obj_name |-> Site, depth |-> 0, color |-> 0,
     desc |-> Empty, has_fields |-> FALSE, rows |-> <<>>, fault |-> FALSE]

\* C8 as stated: when Site is missing from the resolved structures the nested-box
\* run ends with an unhandled lookup fault and hierarchy.html is not written.
C8_MissingRootIsFatal ==
    SiteMissing =>
        /\ pc \notin {"generated", "done"}
        /\ disk.hierarchy = NoPage

\* C8 amended: when Site is missing from the resolved structures the nested-box run
\* raises no fault: render_node reads the maps with membership tests and get(), and
\* the run writes a hierarchy.html whose diagram is the single container sites[] of
\* Site, with no description, no field table and no children.
C8_MissingRootGivesEmptyRoot ==
    SiteMissing =>
        /\ fault = "none"
        /\ pc \in {"built", "generated", "done"}
        /\ pc \in {"generated", "done"} => html.nodes = <<EmptySiteNode>>
        /\ pc = "done" => disk.hierarchy = html

\* C8 witness: a finished nested-box run on tables that have rows but no Site
C8_Witness ==
    /\ SiteMissing
    /\ pc = "done"
    /\ data.objects # <<>>
    /\ data.fields # <<>>
    /\ disk.hierarchy.kind = "hierarchy"

----------------------------------------------------------------------------
(* C9 *)

\* C9: a run of main of generate_html.py or generate_html_wp.py that has ended has
\* written both output files or none of them.
C9_BothFilesOrNone ==
    (prog \in {"standalone", "wp"} /\ pc \in {"aborted", "done"}) =>
        \/ disk.json = NoPage /\ disk.csv = NoPage
        \/ disk.json # NoPage /\ disk.csv # NoPage

----------------------------------------------------------------------------
(* C10 *)

\* the EnumValue rows of enum e, in input order
EnumRowsOf(e) == LET of_e(v) == v.enum = e IN SelectSeq(data.enum_values, of_e)

\* the value column of the rows of enum e joined by ', '
JoinedValues(e) == Join([i \in DOMAIN EnumRowsOf(e) |-> EnumRowsOf(e)[i].value])

\* the label column of the rows of enum e joined by ', '
JoinedLabels(e) == Join([i \in DOMAIN EnumRowsOf(e) |-> EnumRowsOf(e)[i].label])

\* a Field row whose type is the name of a known enum
IsEnumTyped(f) == f.type \in EnumNames

\* the sectioned renderers show values (JSON) and labels (CSV) of an enum-typed field
SectionedEnumCells ==
    /\ \A p \in JsonPages : \A o \in Names : \A k \in JsonSectionsOf(p, o) :
          \A i \in DOMAIN JsonSectionRows(o) :
              IsEnumTyped(JsonSectionRows(o)[i]) =>
                  p.sections[k].rows[i].type.text = JoinedValues(JsonSectionRows(o)[i].type)
    /\ \A p \in CsvPages : \A o \in CsvSectionNames : \A k \in CsvSectionsOf(p, o) :
          \A i \in DOMAIN CsvRowsOf(o) :
              IsEnumTyped(CsvRowsOf(o)[i]) =>
                  p.sections[k].rows[i].type.text = JoinedLabels(CsvRowsOf(o)[i].type)

\* C10 as stated: every JSON-oriented renderer (the nested-box resolver included)
\* shows for a field whose type names a known enum the values of the enum joined by
\* ', ' in row order, and the CSV-oriented renderer shows the labels of the same
\* rows.
C10_EnumValuesAndLabels ==
    /\ SectionedEnumCells
    /\ Built =>
          \A o \in Owners : \A i \in DOMAIN JsonRowsOf(o) :
              IsEnumTyped(JsonRowsOf(o)[i]) =>
                  \E e \in Range(Get(tree.primitives, IF HierMerged /\ o = Location
                                                      THEN Site ELSE o, <<>>)) :
                      /\ e[1] = JsonRowsOf(o)[i].json_name
                      /\ e[2] = JoinedValues(JsonRowsOf(o)[i].type)

\* C10 amended: for a field whose type names a known enum, generate_json_html (both
\* variants) shows the value column of the enum's rows joined by ', ' in row order
\* and generate_csv_html (both variants) the label column of the same rows; the
\* nested-box resolver shows the joined values too unless an Object has the name of
\* the enum, in which case it records the field as a child reference to that Object.
C10_EnumValuesUnlessObject ==
    /\ SectionedEnumCells
    /\ Built =>
          \A o \in DOMAIN tree.primitives : \A i \in DOMAIN HierPrimRows(o) :
              IsEnumTyped(HierPrimRows(o)[i]) =>
                  tree.primitives[o][i][2] = JoinedValues(HierPrimRows(o)[i].type)
    /\ Built =>
          \A o \in Owners : \A i \in DOMAIN JsonRowsOf(o) :
              (IsEnumTyped(JsonRowsOf(o)[i]) /\ IsObjectRef(JsonRowsOf(o)[i])) =>
                  ChildEntry(JsonRowsOf(o)[i]) \in Range(Get(tree.children, o, <<>>))

\* C10 witness: both pages of a run are written, for a field of type Status and
\* the two rows of the enum Status: the JSON page shows 'A, I' and the CSV page
\* 'Active, Inactive'
C10_Witness ==
    /\ disk.json.kind = "json"
    /\ disk.csv.kind = "csv"
    /\ \E k \in DOMAIN disk.json.sections : \E i \in DOMAIN disk.json.sections[k].rows :
          disk.json.sections[k].rows[i].type.text = <<"A", SEP, "I">>
    /\ \E k \in DOMAIN disk.csv.sections : \E i \in DOMAIN disk.csv.sections[k].rows :
          disk.csv.sections[k].rows[i].type.text = <<"Active", SEP, "Inactive">>

----------------------------------------------------------------------------
(* C11 *)

\* a Field row whose type is the name of a known Object followed by []
IsArrayRef(f) == IsArray(f.type) /\ IsObjectRef(f)

\* page p of the nested-box diagram has a container for object o
HasNode(p, o) == \E k \in DOMAIN p.nodes : p.nodes[k].obj_name = o

\* page p of the nested-box diagram has, below the root, a container for the
\* Object-reference row f whose label is the field name followed by []
HasArrayNode(p, f) ==
    \E k \in DOMAIN p.nodes :
        /\ p.nodes[k].depth > 0
        /\ p.nodes[k].obj_name = BaseType(f.type)
        /\ p.nodes[k].label = f.json_name \o <<ARR>>

\* the nested-box resolver and renderer and the sectioned JSON renderers mark the
\* array references among the rows that satisfy has_name
ArrayRefsMarked(has_name(_)) ==
    /\ Built =>
          \A i \in DOMAIN data.fields :
              (IsArrayRef(data.fields[i]) /\ has_name(data.fields[i])) =>
                  /\ data.fields[i].object \in DOMAIN tree.children
                  /\ <<data.fields[i].json_name, BaseType(data.fields[i].type), TRUE>>
                         \in Range(tree.children[data.fields[i].object])
                  /\ \A p \in HierPages :
                         HasNode(p, data.fields[i].object) => HasArrayNode(p, data.fields[i])
    /\ \A p \in JsonPages : \A o \in Names : \A k \in JsonSectionsOf(p, o) :
          \A i \in DOMAIN JsonSectionRows(o) :
              IsArrayRef(JsonSectionRows(o)[i]) =>
                  p.sections[k].rows[i].name =
                      escape(JsonSectionRows(o)[i].json_name) \o <<ARR>>

AnyRow(f) == TRUE

\* C11 as stated: a Field whose type is an Object name followed by [] is in
\* children[owner] with is_array true, and the nested-box renderer, the sectioned
\* JSON renderers and the CSV renderers all append [] to the label they render for
\* the field.
C11_ArrayMarkerEverywhere ==
    /\ ArrayRefsMarked(AnyRow)
    /\ \A p \in CsvPages : \A o \in CsvSectionNames : \A k \in CsvSectionsOf(p, o) :
          \A i \in DOMAIN CsvRowsOf(o) :
              IsArrayRef(CsvRowsOf(o)[i]) =>
                  p.sections[k].rows[i].name = escape(CsvRowsOf(o)[i].csv_column) \o <<ARR>>

\* C11 amended: a Field with a json_name whose type is an Object name followed by
\* [] is in children[owner] with is_array true; the nested-box renderer labels its
\* container with the field name followed by [] and the sectioned JSON renderers
\* show the field name followed by []. The CSV renderers show the csv_column as it
\* is, without a marker: the [] is only in the type cell, which holds the type
\* text unstripped.
C11_ArrayMarkerInJsonOutputs ==
    /\ ArrayRefsMarked(is_json_field)
    /\ \A p \in CsvPages : \A o \in CsvSectionNames : \A k \in CsvSectionsOf(p, o) :
          \A i \in DOMAIN CsvRowsOf(o) :
              (IsArrayRef(CsvRowsOf(o)[i]) /\ ~IsEnumTyped(CsvRowsOf(o)[i])) =>
                  /\ p.sections[k].rows[i].name = escape(CsvRowsOf(o)[i].csv_column)
                  /\ p.sections[k].rows[i].type.text = escape(CsvRowsOf(o)[i].type)

\* C11 witness: both pages of a run are written for a field a / c of type Note[]:
\* the JSON page shows a[] with a link to Note, the CSV page c with type Note[]
C11_Witness ==
    /\ disk.json.kind = "json"
    /\ disk.csv.kind = "csv"
    /\ \E i \in DOMAIN data.fields : IsArrayRef(data.fields[i])
    /\ \E k \in DOMAIN disk.json.sections : \E i \in DOMAIN disk.json.sections[k].rows :
          /\ disk.json.sections[k].rows[i].name = <<"a", ARR>>
          /\ disk.json.sections[k].rows[i].type.kind = "link"
    /\ \E k \in DOMAIN disk.csv.sections : \E i \in DOMAIN disk.csv.sections[k].rows :
          /\ disk.csv.sections[k].rows[i].name = <<"c">>
          /\ disk.csv.sections[k].rows[i].type.text = Note \o <<ARR>>

----------------------------------------------------------------------------
(* C12 *)

\* the run is past the call of generate_json_html
AfterJson == pc \in {"json_generated", "json_written", "csv_generated", "done"}

\* the run is past the call of generate_csv_html
AfterCsv == pc \in {"csv_generated", "done"}

----------------------------------------------------------------------------
(* C13 *)

\* a Field row whose base type is no known Object, no known enum, not boolean and
\* not datetime
IsLiteral(f) ==
    /\ BaseType(f.type) \notin Names
    /\ BaseType(f.type) \notin EnumNames
    /\ f.type \notin EnumNames
    /\ BaseType(f.type) \notin {<<"boolean">>, <<"datetime">>}

\* the nested-box generator and the sectioned JSON renderers show the base type of
\* a literal field, and no run ends in an exception of a renderer
LiteralInJsonOutputs ==
    /\ fault \in {"none", "FileNotFoundError"}
    /\ Built =>
          \A o \in DOMAIN tree.primitives : \A i \in DOMAIN HierPrimRows(o) :
              IsLiteral(HierPrimRows(o)[i]) =>
                  /\ tree.primitives[o][i][2] = BaseType(HierPrimRows(o)[i].type)
                  /\ \A p \in HierPages : \A k \in DOMAIN p.nodes :
                         p.nodes[k].obj_name = o =>
                             p.nodes[k].rows[i][2] =
                                 escape_html(BaseType(HierPrimRows(o)[i].type))
    /\ \A p \in JsonPages : \A o \in Names : \A k \in JsonSectionsOf(p, o) :
          \A i \in DOMAIN JsonSectionRows(o) :
              IsLiteral(JsonSectionRows(o)[i]) =>
                  p.sections[k].rows[i].type =
                      [kind |-> IF prog = "wp" THEN "plain" ELSE "span",
                       text |-> escape(BaseType(JsonSectionRows(o)[i].type))]
    /\ \A p \in JsonPages :
          (/\ Len(data.objects) = 1 /\ data.objects[1].name = Widget
           /\ Len(data.fields) = 1 /\ data.fields[1].object = Widget
           /\ data.fields[1].type = <<"string">>) =>
              /\ Len(p.sections) = 1
              /\ p.sections[1].name = Widget
              /\ Len(p.sections[1].rows) = 1
              /\ p.sections[1].rows[1].name = <<"name">>
              /\ p.sections[1].rows[1].type.text = <<"string">>

----------------------------------------------------------------------------
(* C14 *)

\* the run is one of the sectioned generators and has loaded its tables
Sectioned == prog \in {"standalone", "wp"} /\ pc # "start"

\* parent_map as generate_json_html builds it from the loaded rows
Pmap == parent_map(data.fields, 1, Names, EmptyDict)

RECURSIVE ReachesRoot(_, _, _)
\* following parent_map from object o arrives at Site or Location within n hops
ReachesRoot(pmap, o, n) ==
    \/ o \in {Site, Location}
    \/ /\ n > 0
       /\ o \in DOMAIN pmap
       /\ ReachesRoot(pmap, pmap[o][1], n - 1)

\* object o reaches the root through parent_map
Rooted(o) == ReachesRoot(Pmap, o, Cardinality(DOMAIN Pmap))

RECURSIVE HopsTo(_, _)
\* the hops (owner, field name, is_array) from the root down to a rooted object o
HopsTo(pmap, o) ==
    IF o \in {Site, Location} THEN <<>>
    ELSE Append(HopsTo(pmap, pmap[o][1]), pmap[o])

RECURSIVE HopsText(_)
\* '.' + field name + '[]' if array, for each hop in order
HopsText(hops) ==
    IF hops = <<>> THEN Empty
    ELSE <<".">> \o hops[1][2] \o (IF hops[1][3] THEN <<ARR>> ELSE Empty)
         \o HopsText(Tail(hops))

\* 'sites[]' followed by the text of the hops from the root to o
RootedPath(o) == <<"sites", ARR>> \o HopsText(HopsTo(Pmap, o))

\* C14: for every object that reaches Site or Location through parent_map,
\* compute_json_path (both variants) returns 'sites[]' followed, for each hop in
\* root-to-object order, by '.', the hop's field name and '[]' when the hop is an
\* array; Site and Location both give 'sites[]', so a child owned by Location has
\* the prefix of a child owned by Site; the section of the object shows that path.
C14_PathIsHopsFromRoot ==
    Sectioned =>
        /\ wp_parent_map(data.fields, 1, Names, EmptyDict) = Pmap
        /\ \A o \in DOMAIN Pmap \cup {Site, Location} :
              Rooted(o) =>
                  /\ compute_json_path(Pmap, o) = RootedPath(o)
                  /\ wp_compute_json_path(Pmap, o) = RootedPath(o)
        /\ \A p \in JsonPages : \A o \in Names : \A k \in JsonSectionsOf(p, o) :
              Rooted(o) => p.sections[k].path = escape(RootedPath(o))

\* C14 witness: the JSON page is written with a section of Note, which Location
\* refers to as an array: its path is sites[].l[]
C14_Witness ==
    /\ Sectioned
    /\ disk.json.kind = "json"
    /\ Note \in DOMAIN Pmap
    /\ Pmap[Note][1] = Location
    /\ \E k \in DOMAIN disk.json.sections :
          /\ disk.json.sections[k].name = Note
          /\ disk.json.sections[k].path = <<"sites", ARR, ".", "l", ARR>>

----------------------------------------------------------------------------
(* C15 *)

RECURSIVE AcyclicFrom(_, _, _)
\* no chain of references in children that starts at object o comes back to an
\* object it has passed (path holds the objects passed on the way to o)
AcyclicFrom(children, o, path) ==
    /\ o \notin path
    /\ o \in DOMAIN children =>
          \A i \in DOMAIN children[o] :
              AcyclicFrom(children, children[o][i][2], path \cup {o})

RECURSIVE MaxOf(_)
MaxOf(S) ==
    IF S = {} THEN 0
    ELSE LET x == CHOOSE x \in S : TRUE
             m == MaxOf(S \ {x})
         IN  IF x > m THEN x ELSE m

RECURSIVE LongestChain(_, _)
\* the number of references on the longest chain that starts at o (acyclic graphs)
LongestChain(children, o) ==
    IF o \notin DOMAIN children THEN 0
    ELSE 1 + MaxOf({LongestChain(children, children[o][i][2]) : i \in DOMAIN children[o]})

\* the container that encloses container k of page p: the last one before k that
\* is one level less deep
Encloser(p, k) ==
    CHOOSE j \in 1..(k - 1) :
        /\ p.nodes[j].depth = p.nodes[k].depth - 1
        /\ \A m \in (j + 1)..(k - 1) : p.nodes[m].depth >= p.nodes[k].depth

\* the label render_node gives the container of children entry e
EntryLabel(e) == IF e[3] THEN e[1] \o <<ARR>> ELSE e[1]

\* C15: when no chain of Object references that starts at Site comes back to an
\* object on the chain, render_node('Site', 'sites', True, 0) returns (the run does
\* not end in RecursionError), the root container is at depth 0, every other
\* container is at the depth of the container of its parent plus one, and no depth
\* exceeds the number of references of the longest chain from Site.
C15_AcyclicRenderBounded ==
    (prog = "hierarchy" /\ AcyclicFrom(tree.children, Site, {})) =>
        /\ fault # "RecursionError"
        /\ \A p \in HierPages :
              /\ p.nodes[1].depth = 0
              /\ p.nodes[1].obj_name = Site
              /\ \A k \in DOMAIN p.nodes :
                    /\ p.nodes[k].depth <= LongestChain(tree.children, Site)
                    /\ k > 1 =>
                          /\ p.nodes[k].depth >= 1
                          /\ p.nodes[k].depth <= p.nodes[k - 1].depth + 1
                          /\ \E e \in Range(tree.children[p.nodes[Encloser(p, k)].obj_name]) :
                                /\ e[2] = p.nodes[k].obj_name
                                /\ EntryLabel(e) = p.nodes[k].label

\* C15 witness: the diagram is written for a chain of two references from Site,
\* and its deepest container is at depth 2
C15_Witness ==
    /\ Built
    /\ AcyclicFrom(tree.children, Site, {})
    /\ LongestChain(tree.children, Site) = 2
    /\ disk.hierarchy.kind = "hierarchy"
    /\ \E k \in DOMAIN disk.hierarchy.nodes : disk.hierarchy.nodes[k].depth = 2

----------------------------------------------------------------------------
(* C16 *)

\* Site, Project, Location, SoilMatches, EcologicalSite, SoilData, DepthInterval
FixedOrder ==
    <<Site, Project, Location, <<"SoilMatches">>, <<"EcologicalSite">>,
      <<"SoilData">>, <<"DepthInterval">>>>

\* the objects of the fixed list that own a field with a csv_column, in list order
CsvOwnersInFixedOrder ==
    LET owns(o) == CsvRowsOf(o) # <<>> IN SelectSeq(FixedOrder, owns)

\* (column, description) of each row of a CSV section, as rendered
CsvCells(rows) == [i \in DOMAIN rows |-> <<rows[i].name, rows[i].desc>>]

\* (column, description) of each Field row, as it is to be rendered
CsvCellsOf(fields) ==
    [i \in DOMAIN fields |-> <<escape(fields[i].csv_column), escape(fields[i].description)>>]

\* C16: generate_csv_html (both variants) emits sections only for objects of the
\* fixed list, in the order of the list whatever the order of the input rows, one
\* for each listed object that owns a field with a csv_column, and each section
\* lists exactly the fields of its object that have a non-empty csv_column, in
\* input row order.
C16_CsvSectionsFixedOrder ==
    \A p \in CsvPages :
        /\ [k \in DOMAIN p.sections |-> p.sections[k].obj_name] = CsvOwnersInFixedOrder
        /\ \A k \in DOMAIN p.sections :
              /\ CsvCells(p.sections[k].rows) = CsvCellsOf(CsvRowsOf(p.sections[k].obj_name))
              /\ \A i \in DOMAIN p.sections[k].rows :
                    ~IsEnumTyped(CsvRowsOf(p.sections[k].obj_name)[i]) =>
                        p.sections[k].rows[i].type.text =
                            escape(CsvRowsOf(p.sections[k].obj_name)[i].type)

\* C16 witness: the CSV page is written for a row of Location that precedes a row
\* of Site in fields.csv, both with a csv_column: the page has the sections Site,
\* Location in this order
C16_Witness ==
    /\ disk.csv.kind = "csv"
    /\ Len(data.fields) >= 2
    /\ data.fields[1].object = Location
    /\ data.fields[2].object = Site
    /\ is_csv_field(data.fields[1])
    /\ is_csv_field(data.fields[2])
    /\ [k \in DOMAIN disk.csv.sections |-> disk.csv.sections[k].obj_name] = <<Site, Location>>

----------------------------------------------------------------------------
(* C17 *)

\* C17: compute_json_path returns for every object that gets a JSON section,
\* whatever the Fields table, also when objects refer to each other without
\* passing through Site or Location: no run of a sectioned generator ends in
\* RecursionError.
C17_PathTerminates == Sectioned => fault # "RecursionError"

----------------------------------------------------------------------------
(* C18 *)

\* text s begins with 'sites[]'
StartsAtRoot(s) == Len(s) >= 2 /\ SubSeq(s, 1, 2) = <<"sites", ARR>>

\* C18: every non-empty path compute_json_path returns begins with 'sites[]': the
\* section of an object without a chain of parents up to Site shows no path or a
\* path that begins with 'sites[]', never one that begins with '.'.
C18_PathStartsAtRoot ==
    \A p \in JsonPages : \A k \in DOMAIN p.sections :
        \/ p.sections[k].path = Empty
        \/ StartsAtRoot(p.sections[k].path)

----------------------------------------------------------------------------
(* C19 *)

\* the ids of the object sections of page p
SectionIds(p) == {p.sections[k].id : k \in DOMAIN p.sections}

\* the same-page anchors page p generates from the data: the navigation links to
\* objects and the links of the type cells
DataAnchors(p) ==
    {p.nav[i] : i \in {j \in DOMAIN p.nav : p.nav[j] # <<"#overview">>}}
    \cup UNION {{p.sections[k].rows[i].type.href :
                    i \in {j \in DOMAIN p.sections[k].rows :
                              p.sections[k].rows[j].type.kind = "link"}} :
                k \in DOMAIN p.sections}

\* the id an anchor '#obj-x' points to: 'obj-x'
AnchorTarget(href) == <<"obj-">> \o Tail(href)

\* C19: in the sectioned JSON output every same-page anchor generated from the
\* data, each navigation link to an object and each Object-reference link of a
\* type cell, points to the id of a section of the same page.
C19_AnchorsHaveTargets ==
    \A p \in JsonPages : \A a \in DataAnchors(p) :
        /\ a[1] = "#obj-"
        /\ AnchorTarget(a) \in SectionIds(p)

----------------------------------------------------------------------------
(* C20 *)

\* children as build_tree resolves it from the loaded rows
ResolvedChildren == build_tree(data.objects, data.fields, data.enum_values).children

\* C20: the sectioned JSON renderers classify a field as the resolver does: every
\* field whose base type is the name of a known Object (the fields parent_map and
\* build_tree take for Object references) has a link to that Object in its type
\* cell, not the values of an enum and not a primitive label, and every field
\* whose type cell is a link is in children as build_tree resolves it.
C20_JsonClassifiesLikeResolver ==
    \A p \in JsonPages : \A o \in Names : \A k \in JsonSectionsOf(p, o) :
        \A i \in DOMAIN JsonSectionRows(o) :
            /\ IsObjectRef(JsonSectionRows(o)[i]) =>
                  /\ p.sections[k].rows[i].type.kind = "link"
                  /\ p.sections[k].rows[i].type.text =
                         escape(BaseType(JsonSectionRows(o)[i].type))
            /\ p.sections[k].rows[i].type.kind = "link" =>
                  ChildEntry(JsonSectionRows(o)[i]) \in
                      Range(Get(ResolvedChildren, JsonSectionRows(o)[i].object, <<>>))

----------------------------------------------------------------------------
(* C21: the standalone and the WordPress variant emit the same content *)

\* a table row without the markup wrapper of its type cell
RowContent(r) == [name |-> r.name, type |-> r.type.text, desc |-> r.desc]

\* the object sections of a JSON page, in order: id, heading, JSON path and rows
JsonContent(p) ==
    [i \in DOMAIN p.sections |->
        [id |-> p.sections[i].id,
         name |-> p.sections[i].name,
         path |-> p.sections[i].path,
         rows |-> [j \in DOMAIN p.sections[i].rows |->
                      RowContent(p.sections[i].rows[j])]]]

\* the sections of a CSV page, in order: id, object, heading and rows
CsvContent(p) ==
    [i \in DOMAIN p.sections |->
        [id |-> p.sections[i].id,
         obj_name |-> p.sections[i].obj_name,
         name |-> p.sections[i].name,
         rows |-> [j \in DOMAIN p.sections[i].rows |->
                      RowContent(p.sections[i].rows[j])]]]

\* what the other variant loads from the same input tables
OtherData ==
    IF prog = "standalone" THEN wp_load_all_data(files).data
    ELSE load_all_data(files).data

\* the exception of the other variant's generate_json_html on these tables
OtherJsonFault ==
    IF prog = "standalone" THEN wp_generate_json_fault(OtherData)
    ELSE generate_json_fault(OtherData)

\* the JSON page of the other variant on these tables
OtherJson ==
    IF prog = "standalone" THEN wp_generate_json_html(OtherData)
    ELSE generate_json_html(OtherData)

\* the exception of the other variant's generate_csv_html on these tables
OtherCsvFault ==
    IF prog = "standalone" THEN wp_generate_csv_fault(OtherData)
    ELSE generate_csv_fault(OtherData)

\* the CSV page of the other variant on these tables
OtherCsv ==
    IF prog = "standalone" THEN wp_generate_csv_html(OtherData)
    ELSE generate_csv_html(OtherData)

\* the exception that ends the other variant's main() on these tables
OtherFault == IF OtherJsonFault # "none" THEN OtherJsonFault ELSE OtherCsvFault

\* C21: for the same input tables the standalone and the WordPress variant write
\* JSON pages with the same sequence of object sections, each with the same JSON
\* path and the same rows (field name, type label text, description) in the same
\* order, and CSV pages with the same sequence of sections and rows; where one
\* variant ends with an exception, the other ends with the same one.
C21_VariantsEmitSameContent ==
    prog \in {"standalone", "wp"} =>
        /\ disk.json # NoPage =>
               /\ OtherJsonFault = "none"
               /\ JsonContent(disk.json) = JsonContent(OtherJson)
        /\ disk.csv # NoPage =>
               /\ OtherFault = "none"
               /\ CsvContent(disk.csv) = CsvContent(OtherCsv)
        /\ pc = "aborted" => fault = OtherFault

\* The standalone variant wrote both pages: the JSON page has the sections of Site
\* and of Note, the latter with a JSON path, and a row whose type cell the
\* standalone variant wraps in a span, so that the page of the WordPress variant
\* is another text; the CSV page has a section with a row, and the two variants'
\* navigation differs.
C21_Witness ==
    /\ prog = "standalone"
    /\ pc = "done"
    /\ Len(disk.json.sections) = 2
    /\ \E i \in DOMAIN disk.json.sections :
           /\ disk.json.sections[i].name = Note
           /\ disk.json.sections[i].path # Empty
    /\ \E i \in DOMAIN disk.json.sections : \E j \in DOMAIN disk.json.sections[i].rows :
           disk.json.sections[i].rows[j].type.kind = "span"
    /\ disk.json # OtherJson
    /\ \E i \in DOMAIN disk.csv.sections : disk.csv.sections[i].rows # <<>>
    /\ disk.csv.nav # OtherCsv.nav

====
